---- MODULE Spec2Model ----
(***************************************************************************)
(* A model of liquid-glass.js: the squircle path geometry, the            *)
(* displacement-map generator (Shader.updateShader), the effect instance  *)
(* lifecycle (Shader.applyTo / Shader.destroy, the LiquidGlass registry)  *)
(* and the auto-apply scan (initAutoApply).                                *)
(*                                                                         *)
(* Numbers.  JavaScript numbers are doubles.  The model computes with     *)
(* exact rationals [n |-> numerator, d |-> denominator]; d = 0 stands for *)
(* the doubles that are no number (0/0 = NaN, x/0 = +-Infinity).  Within  *)
(* the grid sizes explored here (x / w) * w - x is exactly 0 in doubles   *)
(* too (it first differs at w = 22).                                       *)
(***************************************************************************)
EXTENDS Integers, Sequences, FiniteSets, TLC

\* ------------------------------------------------------------------------
\* Bounds of the exploration
\* ------------------------------------------------------------------------

\* Largest grid width/height the generator is run on with the glass
\* fragment, and the largest number of cells of such a grid.
MaxGrid == 3
MaxCells == 6
\* Largest width/height and radius getSquirclePath is called with.
MaxSide == 3
MaxPathRadius == 2

\* ------------------------------------------------------------------------
\* Exact rational arithmetic standing for the double arithmetic of the code
\* ------------------------------------------------------------------------

AbsInt(i) == IF i < 0 THEN -i ELSE i

RECURSIVE Gcd(_, _)
Gcd(a, b) == IF b = 0 THEN a ELSE Gcd(b, a % b)

\* n/d in lowest terms with d > 0; anything over 0 keeps d = 0 (NaN for 0/0).
Rat(n, d) ==
  IF d = 0 THEN [n |-> IF n > 0 THEN 1 ELSE IF n < 0 THEN -1 ELSE 0, d |-> 0]
  ELSE LET g == Gcd(AbsInt(n), AbsInt(d))
           s == IF d < 0 THEN -1 ELSE 1
       IN  [n |-> s * (n \div g), d |-> s * (d \div g)]

RInt(i) == [n |-> i, d |-> 1]
IsNaN(a) == a.d = 0 /\ a.n = 0
IsFinite(a) == a.d # 0

\* Sums, products and comparisons divide out common factors first, so that
\* intermediate values stay small.
RAdd(a, b) ==
  IF a.d = 0 \/ b.d = 0 THEN Rat(a.n * b.d + b.n * a.d, 0)
  ELSE LET g == Gcd(a.d, b.d)
       IN  Rat(a.n * (b.d \div g) + b.n * (a.d \div g), (a.d \div g) * b.d)
RNeg(a) == [n |-> -a.n, d |-> a.d]
RSub(a, b) == RAdd(a, RNeg(b))
RMul(a, b) ==
  IF a.d = 0 \/ b.d = 0 \/ a.n = 0 \/ b.n = 0 THEN Rat(a.n * b.n, a.d * b.d)
  ELSE LET g == Gcd(AbsInt(a.n), b.d)
           k == Gcd(AbsInt(b.n), a.d)
       IN  Rat((a.n \div g) * (b.n \div k), (a.d \div k) * (b.d \div g))
RDiv(a, b) ==
  IF a.d = 0 \/ b.d = 0 \/ b.n = 0 THEN Rat(a.n * b.d, a.d * b.n)
  ELSE RMul(a, [n |-> IF b.n < 0 THEN -b.d ELSE b.d, d |-> AbsInt(b.n)])
RAbs(a) == [n |-> AbsInt(a.n), d |-> a.d]
RLe(a, b) ==
  IF a.d = 0 \/ b.d = 0 THEN a.n * b.d <= b.n * a.d
  ELSE LET g == Gcd(a.d, b.d) IN a.n * (b.d \div g) <= b.n * (a.d \div g)
RLt(a, b) ==
  IF a.d = 0 \/ b.d = 0 THEN a.n * b.d < b.n * a.d
  ELSE LET g == Gcd(a.d, b.d) IN a.n * (b.d \div g) < b.n * (a.d \div g)
\* Math.max / Math.min on numbers (no NaN operand arises where they are used).
RMax(a, b) == IF RLe(a, b) THEN b ELSE a
RMin(a, b) == IF RLe(a, b) THEN a ELSE b
\* Math.floor of a finite number.
RFloor(a) == a.n \div a.d

\* ------------------------------------------------------------------------
\* Utility functions
\* ------------------------------------------------------------------------

\* smoothStep(a, b, t): clamp (t - a) / (b - a) to [0, 1], then t*t*(3 - 2t).
smoothStep(a, b, t) ==
  LET u == RMax(RInt(0), RMin(RInt(1), RDiv(RSub(t, a), RSub(b, a))))
  IN  RMul(RMul(u, u), RSub(RInt(3), RMul(RInt(2), u)))

\* texture(x, y): the position record a fragment returns.
texture(x, y) == [type |-> "t", x |-> x, y |-> y]

\* ------------------------------------------------------------------------
\* Geometry: getSquirclePath
\* ------------------------------------------------------------------------

\* A path is the sequence of its commands, each with its coordinates in
\* order; this is the string of the template with its whitespace collapsed
\* and trimmed, read command by command.
Cmd(c, a) == [c |-> c, a |-> a]

getSquirclePath(w, h, r, o) ==
  LET k == RMul(r, Rat(6, 28))
      L == o
      T == o
      R == RSub(w, o)
      B == RSub(h, o)
  IN  << Cmd("M", <<L, RAdd(T, r)>>),
         Cmd("C", <<L, RAdd(T, k), RAdd(L, k), T, RAdd(L, r), T>>),
         Cmd("L", <<RSub(R, r), T>>),
         Cmd("C", <<RSub(R, k), T, R, RAdd(T, k), R, RAdd(T, r)>>),
         Cmd("L", <<R, RSub(B, r)>>),
         Cmd("C", <<R, RSub(B, k), RSub(R, k), B, RSub(R, r), B>>),
         Cmd("L", <<RAdd(L, r), B>>),
         Cmd("C", <<RAdd(L, k), B, L, RSub(B, k), L, RSub(B, r)>>),
         Cmd("Z", <<>>) >>

\* ------------------------------------------------------------------------
\* Geometry: squircleSDF
\* ------------------------------------------------------------------------

\* Math.pow(Math.pow(qx, 4) + Math.pow(qy, 4), 1 / 4) is irrational in
\* general and cannot be computed exactly here: its value is the argument
\* dist, which the generator's specification draws per cell from PowValues.
\* The rest of the function is computed as written.
squircleSDF(x, y, width, height, radius, dist) ==
  LET dx == RAdd(RSub(RAbs(x), width), radius)
      dy == RAdd(RSub(RAbs(y), height), radius)
      outside == RSub(RMul(dist, radius), radius)
      inside == RMin(RMax(dx, dy), RInt(0))
  IN  RAdd(outside, inside)

\* The values Math.pow returns in the model.  On the unit square the fourth
\* power norm runs from about 0.71 (centre) to 1.69 (corner); 5/4 makes the
\* fragment's weight 1 (no offset), 19/12 makes it 15309/16384, and 23/12,
\* a little beyond the corner, makes it 1/2.
PowValues == { Rat(5, 4), Rat(19, 12), Rat(23, 12) }

\* ------------------------------------------------------------------------
\* Displacement generator: the fragments and Shader.updateShader
\* ------------------------------------------------------------------------

canvasDPI == 1

\* The Shader constructor's default fragment: the identity.
DefaultFragment(uv) == texture(uv.x, uv.y)

\* The fragment LiquidGlass.applyTo passes to the Shader.
GlassFragment(uv, dist) ==
  LET ix == RSub(uv.x, Rat(1, 2))
      iy == RSub(uv.y, Rat(1, 2))
      distanceToEdge == squircleSDF(ix, iy, Rat(3, 10), Rat(2, 10), Rat(6, 10), dist)
      displacement == smoothStep(Rat(8, 10), RInt(0), RSub(distanceToEdge, Rat(15, 100)))
      scaled == smoothStep(RInt(0), RInt(1), displacement)
  IN  texture(RAdd(RMul(ix, scaled), Rat(1, 2)), RAdd(RMul(iy, scaled), Rat(1, 2)))

\* A fragment: "default" or "glass"; pow[c] is what Math.pow returns in the
\* glass fragment's call for cell c.
Fragment(frag, uv, c) ==
  IF frag.kind = "default" THEN DefaultFragment(uv)
  ELSE GlassFragment(uv, frag.pow[c])

\* A store into a Uint8ClampedArray: NaN becomes 0, the value is clamped to
\* [0, 255] and rounded to the nearest integer, ties to even.
ToUint8Clamp(v) ==
  IF IsNaN(v) THEN 0
  ELSE IF v.d = 0 THEN (IF v.n > 0 THEN 255 ELSE 0)
  ELSE IF RLe(v, RInt(0)) THEN 0
  ELSE IF RLe(RInt(255), v) THEN 255
  ELSE LET f == RFloor(v)
           twice == RSub(RMul(RInt(2), v), RInt(2 * f))
       IN  IF RLt(RInt(1), twice) THEN f + 1
           ELSE IF RLt(twice, RInt(1)) THEN f
           ELSE IF f % 2 = 0 THEN f ELSE f + 1

\* First loop of updateShader: the offsets (dx, dy) of cell c.
RawOffsets(w, h, frag, c) ==
  LET x == c % w
      y == c \div w
      pos == Fragment(frag, [x |-> Rat(x, w), y |-> Rat(y, h)], c)
  IN  [dx |-> RSub(RMul(pos.x, RInt(w)), RInt(x)),
       dy |-> RSub(RMul(pos.y, RInt(h)), RInt(y))]

RECURSIVE MaxAbs(_, _)
\* maxScale after the first loop has visited cells 0 .. n-1.
MaxAbs(raw, n) ==
  IF n = 0 THEN RInt(0)
  ELSE RMax(RMax(MaxAbs(raw, n - 1), RAbs(raw[n - 1].dx)), RAbs(raw[n - 1].dy))

\* The second loop without the + 0.5 that centres a zero offset on the
\* midpoint of the byte.
EncodeCellNoOffset(raw, maxScale, c) ==
  LET r == RDiv(raw[c].dx, maxScale)
      g == RDiv(raw[c].dy, maxScale)
  IN  << ToUint8Clamp(RMul(r, RInt(255))), ToUint8Clamp(RMul(g, RInt(255))), 0, 255 >>

\* Second loop of updateShader: the four bytes of cell c.
EncodeCell(raw, maxScale, c) ==
  LET r == RAdd(RDiv(raw[c].dx, maxScale), Rat(1, 2))
      g == RAdd(RDiv(raw[c].dy, maxScale), Rat(1, 2))
  IN  << ToUint8Clamp(RMul(r, RInt(255))), ToUint8Clamp(RMul(g, RInt(255))), 0, 255 >>

\* Shader.updateShader for a shader of the given width, height and
\* fragment: the offsets, the halved maximum, the raster (one <<R, G, B, A>>
\* per cell) and the scale attribute of the feDisplacementMap.
updateShader(width, height, frag) ==
  LET w == width * canvasDPI
      h == height * canvasDPI
      cells == 0 .. (w * h - 1)
      raw == [c \in cells |-> RawOffsets(w, h, frag, c)]
      maxScale == RMul(MaxAbs(raw, w * h), Rat(1, 2))
  IN  [w |-> w, h |-> h, raw |-> raw, maxScale |-> maxScale,
       data |-> [c \in cells |-> EncodeCell(raw, maxScale, c)],
       scale |-> RDiv(maxScale, RInt(canvasDPI))]

\* ------------------------------------------------------------------------
\* The document, the effect instances and the registry
\* ------------------------------------------------------------------------

\* Number of card elements in the document.
NumElements == 1
\* Largest clientWidth / clientHeight a surface takes.
MaxDim == 2
\* Number of Shader objects created in one behaviour.
MaxInstances == 2
\* Number of scans the document's own mutations leave pending at once.
MaxTimers == 2

\* The elements, in document order.
Elements == 1 .. NumElements
\* A surface is an element an effect can be applied to: a card element
\* itself ("host") or the first element child of its shadow root ("inner").
Surfaces == Elements \X {"host", "inner"}
Dims == 0 .. MaxDim
Ids == 1 .. MaxInstances
ClassNames == {"liquid-glass", "liquid-glass-squircle", "liquid-glass-no-rim"}
\* element.shadowRoot: undefined (a host without shadow DOM), null (no open
\* shadow root), an empty shadow root, or one with a first element child.
ShadowStates == {"undefined", "null", "empty", "child"}

VARIABLES
  classList,    \* element -> its classes
  config,       \* element -> whether _config / config has liquid_glass set
  shadowRoot,   \* element -> ShadowStates
  radiusVar,    \* element -> parseFloat of --liquid-glass-radius (0: unset)
  clientSize,   \* surface -> <<clientWidth, clientHeight>> (= offset size)
  style,        \* surface -> inline style the script writes
  positioned,   \* surfaces whose parent got position: relative
  inst,         \* shader id -> the Shader object and what hangs off it
  nextId,       \* number of Shader objects created so far
  applied,      \* LiquidGlass._applied: surface -> shader id of its result, 0: none
  inDocument,   \* elements attached below document.body
  autoInit,     \* whether initAutoApply has run
  scanTimers,   \* pending setTimeout(scanForElements, ...) callbacks
  scanQueue,    \* elements the running scanForElements has still to visit
  processed,    \* processedElements (the WeakSet of checkAndApply)
  chain,        \* element -> state of its tryApply chain
  gen,          \* one run of the displacement generator
  pth           \* one call of getSquirclePath

domVars == <<classList, config, shadowRoot, radiusVar, clientSize, style, positioned>>
apiVars == <<inst, nextId, applied>>
autoVars == <<inDocument, autoInit, scanTimers, scanQueue, processed, chain>>
pureVars == <<gen, pth>>
vars == <<domVars, apiVars, autoVars, pureVars>>

Unset == <<>>

\* A Shader that has not been constructed.
NoInst ==
  [state |-> "none", target |-> Unset, width |-> 0, height |-> 0,
   squircle |-> FALSE, rim |-> FALSE, borderRadius |-> 0,
   viewBox |-> Unset, maskD |-> Unset, rimD |-> Unset, rimRect |-> Unset,
   gradient |-> Unset, observing |-> FALSE, attached |-> FALSE]

\* Inline style of a surface: backdropFilter and maskImage name the shader
\* whose filter / mask the url(#id_...) refers to (0: not set).
NoStyle == [backdropFilter |-> 0, maskImage |-> 0, borderRadius |-> 0]

\* The interior target of applyToElement: the shadow root's ha-card, .card
\* or first element child, or the element itself.
TargetOf(e) == IF shadowRoot[e] = "child" THEN <<e, "inner">> ELSE <<e, "host">>

\* A surface exists when it is a host, or the child of a populated shadow root.
Exists(s) == s[2] = "host" \/ shadowRoot[s[1]] = "child"

DefaultRadius == 12
DefaultWidth == 300
DefaultHeight == 200

\* JavaScript runs one task at a time: while scanForElements is working
\* through its elements nothing else runs.
Idle == scanQueue = <<>>

\* updateDimensions drawing the rim on the outline instead of 0.5 inside it.
updateDimensionsRimOnOutline(sh, size) ==
  LET w == size[1]
      h == size[2]
      r == RInt(sh.borderRadius)
  IN  IF w = 0 \/ h = 0 THEN sh
      ELSE [sh EXCEPT
              !.viewBox = <<w, h>>,
              !.maskD = IF sh.squircle
                        THEN getSquirclePath(RInt(w), RInt(h), r, RInt(0)) ELSE @,
              !.rimD = IF sh.squircle /\ sh.rim
                       THEN getSquirclePath(RInt(w), RInt(h), r, RInt(0)) ELSE @,
              !.rimRect = IF sh.rim /\ ~sh.squircle
                          THEN <<w - 1, h - 1, sh.borderRadius>> ELSE @,
              !.gradient = IF sh.rim THEN <<w, h>> ELSE @]

\* The closure updateDimensions of Shader.applyTo, run for shader record sh
\* when its element has client size <<w, h>>.
updateDimensions(sh, size) ==
  LET w == size[1]
      h == size[2]
      r == RInt(sh.borderRadius)
  IN  IF w = 0 \/ h = 0 THEN sh
      ELSE [sh EXCEPT
              !.viewBox = <<w, h>>,
              !.maskD = IF sh.squircle
                        THEN getSquirclePath(RInt(w), RInt(h), r, RInt(0)) ELSE @,
              !.rimD = IF sh.squircle /\ sh.rim
                       THEN getSquirclePath(RInt(w), RInt(h), r, Rat(1, 2)) ELSE @,
              !.rimRect = IF sh.rim /\ ~sh.squircle
                          THEN <<w - 1, h - 1, sh.borderRadius>> ELSE @,
              !.gradient = IF sh.rim THEN <<w, h>> ELSE @]

\* new Shader({width, height, fragment}) followed by shader.applyTo(element,
\* options): the Shader object as it stands when LiquidGlass.applyTo returns.
\* width and height are the size of the raster updateShader generated.
NewShader(s, width, height, options) ==
  updateDimensions(
    [NoInst EXCEPT !.state = "live", !.target = s,
                   !.width = width, !.height = height,
                   !.squircle = options.squircle,
                   !.rim = options.rim,
                   !.borderRadius = IF options.borderRadius # 0
                                    THEN options.borderRadius ELSE DefaultRadius,
                   !.observing = TRUE, !.attached = TRUE],
    clientSize[s])

\* The inline style Shader.applyTo leaves on the element.
StyleAfterApply(old, id, sh) ==
  IF sh.squircle
  THEN [old EXCEPT !.maskImage = id, !.backdropFilter = id]
  ELSE [old EXCEPT !.borderRadius = sh.borderRadius, !.backdropFilter = id]

\* options.width || element.offsetWidth, without the last fallback.
WidthWithoutDefault(s, options) ==
  IF options.width # 0 THEN options.width ELSE clientSize[s][1]

\* options.width || element.offsetWidth || 300 (and the same for height).
WidthFor(s, options) ==
  IF options.width # 0 THEN options.width
  ELSE IF clientSize[s][1] # 0 THEN clientSize[s][1] ELSE DefaultWidth
HeightFor(s, options) ==
  IF options.height # 0 THEN options.height
  ELSE IF clientSize[s][2] # 0 THEN clientSize[s][2] ELSE DefaultHeight

\* The Shader constructor throws when a dimension is negative: with one
\* negative dimension new Uint8ClampedArray(w * h * 4) is a RangeError, with
\* two new ImageData(data, w, h) rejects the sizes.
ConstructorThrows(width, height) == width < 0 \/ height < 0

\* What LiquidGlass.applyTo(element, options) returns or throws: the
\* registered result, an exception out of the Shader constructor, or a new
\* result.
ApplyOutcome(s, options) ==
  IF applied[s] # 0 THEN "existing"
  ELSE IF ConstructorThrows(WidthFor(s, options), HeightFor(s, options)) THEN "error"
  ELSE "created"

\* Appending the SVG to (or removing it from) the parent of a host that is
\* in the document is a childList mutation below document.body: once
\* initAutoApply has run, its MutationObserver answers with
\* setTimeout(scanForElements, 100).  A shadow root's child has no
\* parentElement: its SVG goes into the target, inside the shadow tree,
\* where the observer does not see it.
TimersAfterSvgChange(s) ==
  IF autoInit /\ s[2] = "host" /\ s[1] \in inDocument THEN scanTimers + 1
  ELSE scanTimers

\* The state change of LiquidGlass.applyTo(element, options).
DoApplyTo(s, options) ==
  LET id == nextId + 1
      sh == NewShader(s, WidthFor(s, options), HeightFor(s, options), options)
  IN  IF ApplyOutcome(s, options) # "created"
      THEN UNCHANGED <<inst, nextId, applied, style, scanTimers>>
      ELSE /\ nextId < MaxInstances
           /\ nextId' = id
           /\ inst' = [inst EXCEPT ![id] = sh]
           /\ style' = [style EXCEPT ![s] = StyleAfterApply(@, id, sh)]
           /\ applied' = [applied EXCEPT ![s] = id]
           /\ scanTimers' = TimersAfterSvgChange(s)

\* The options a caller of LiquidGlass.applyTo passes: width / height (0:
\* given as 0 or not given, which || treats alike), squircle, rim (rim: false hides it) and borderRadius (0: not
\* given).
OptionSets ==
  [width : {-1, 0, MaxDim}, height : {-1, 0, MaxDim},
   squircle : BOOLEAN, rim : BOOLEAN, borderRadius : {0, 24}]

\* LiquidGlass.applyTo(element, options) called by a script.
ApplyTo(s, options) ==
  /\ Idle
  /\ Exists(s)
  /\ DoApplyTo(s, options)
  /\ UNCHANGED <<classList, config, shadowRoot, radiusVar, clientSize, positioned>>
  /\ UNCHANGED <<inDocument, autoInit, scanQueue, processed, chain, pureVars>>

\* The border radius applyToElement reads from the computed styles: the
\* custom property (inherited by the target), else the target's border
\* radius, else 12.
RadiusFor(e, target) ==
  IF radiusVar[e] # 0 THEN radiusVar[e]
  ELSE IF style[target].borderRadius # 0 THEN style[target].borderRadius
  ELSE DefaultRadius

\* The state change of LiquidGlass.applyToElement(element), whoever calls it.
DoApplyToElement(e) ==
  LET target == TargetOf(e)
      options == [width |-> 0, height |-> 0,
                  squircle |-> "liquid-glass-squircle" \in classList[e],
                  rim |-> "liquid-glass-no-rim" \notin classList[e],
                  borderRadius |-> RadiusFor(e, target)]
  IN  IF "liquid-glass" \notin classList[e]
      THEN UNCHANGED <<inst, nextId, applied, style, scanTimers, positioned>>
      ELSE \* a shadow root's child has no parentElement
           /\ positioned' = IF target[2] = "host" THEN positioned \cup {target}
                            ELSE positioned
           /\ DoApplyTo(target, options)

\* LiquidGlass.applyToElement(element) called by a script.
ApplyToElement(e) ==
  /\ Idle
  /\ DoApplyToElement(e)
  /\ UNCHANGED <<classList, config, shadowRoot, radiusVar, clientSize>>
  /\ UNCHANGED <<inDocument, autoInit, scanQueue, processed, chain, pureVars>>

\* Shader.destroy() of shader record sh: the observer is disconnected, the
\* SVG and the canvas are out of the document.  The model keeps of a
\* destroyed Shader only its targetElement: the options and the attributes
\* of the detached SVG are never read again.
ShaderDestroy(sh) ==
  [NoInst EXCEPT !.state = "destroyed", !.target = sh.target]

\* The inline style Shader.destroy leaves on its target element.
StyleAfterDestroy(old) == [old EXCEPT !.backdropFilter = 0]

\* result.destroy() on the result object of shader i; the caller may hold
\* the result of any shader that was ever created.
Destroy(i) ==
  /\ Idle
  /\ inst[i].state # "none"
  /\ inst' = [inst EXCEPT ![i] = ShaderDestroy(@)]
  /\ style' = [style EXCEPT ![inst[i].target] = StyleAfterDestroy(@)]
  /\ applied' = [applied EXCEPT ![inst[i].target] = 0]
  /\ scanTimers' = IF inst[i].attached THEN TimersAfterSvgChange(inst[i].target)
                   ELSE scanTimers
  /\ UNCHANGED <<classList, config, shadowRoot, radiusVar, clientSize, positioned, nextId>>
  /\ UNCHANGED <<inDocument, autoInit, scanQueue, processed, chain, pureVars>>

\* The surface s takes a new client size and the resize observers watching
\* it run their callback.
Resize(s, w, h) ==
  /\ Idle
  /\ Exists(s)
  /\ clientSize[s] # <<w, h>>
  /\ clientSize' = [clientSize EXCEPT ![s] = <<w, h>>]
  /\ inst' = [i \in Ids |->
                IF inst[i].observing /\ inst[i].target = s
                THEN updateDimensions(inst[i], <<w, h>>) ELSE inst[i]]
  /\ UNCHANGED <<classList, config, shadowRoot, radiusVar, style, positioned, nextId, applied>>
  /\ UNCHANGED <<autoVars, pureVars>>

\* What no specification of the page changes.
InitPure ==
  /\ gen = [phase |-> "idle"]
  /\ pth = [phase |-> "idle"]

InitApiState ==
  /\ style = [s \in Surfaces |-> NoStyle]
  /\ positioned = {}
  /\ inst = [i \in Ids |-> NoInst]
  /\ nextId = 0
  /\ applied = [s \in Surfaces |-> 0]

InitAutoState ==
  /\ autoInit = FALSE
  /\ scanTimers = 0
  /\ scanQueue = <<>>
  /\ processed = {}
  /\ chain = [e \in Elements |-> [state |-> "none", attempts |-> 0]]

\* The cards the API is exercised on: a plain element without the class, a
\* plain element with it, a squircle card with --liquid-glass-radius: 24px
\* whose shadow root is empty, and a card without rim on a host without
\* shadow DOM.
ApiCards ==
  { [classes |-> {}, shadow |-> "null", radius |-> 0],
    [classes |-> {"liquid-glass"}, shadow |-> "null", radius |-> 0],
    [classes |-> {"liquid-glass", "liquid-glass-squircle"}, shadow |-> "empty", radius |-> 24],
    [classes |-> {"liquid-glass", "liquid-glass-no-rim"}, shadow |-> "undefined", radius |-> 0] }

\* A surface that does not exist has no size.
SizesOk == \A s \in Surfaces : Exists(s) \/ clientSize[s] = <<0, 0>>

\* The page in its first second, before initAutoApply runs: each element one
\* of the cards, surfaces of any size, no effect applied.
Init ==
  /\ \E card \in [Elements -> ApiCards] :
       /\ classList = [e \in Elements |-> card[e].classes]
       /\ shadowRoot = [e \in Elements |-> card[e].shadow]
       /\ radiusVar = [e \in Elements |-> card[e].radius]
  /\ config = [e \in Elements |-> FALSE]
  /\ clientSize \in [Surfaces -> Dims \X Dims]
  /\ SizesOk
  /\ inDocument = Elements
  /\ InitApiState
  /\ InitAutoState
  /\ InitPure

\* Scripts using the API on the page.
Next ==
  \/ \E s \in Surfaces, o \in OptionSets : ApplyTo(s, o)
  \/ \E e \in Elements : ApplyToElement(e)
  \/ \E i \in Ids : Destroy(i)
  \/ \E s \in Surfaces, w \in Dims, h \in Dims : Resize(s, w, h)

Spec == Init /\ [][Next]_vars

\* ------------------------------------------------------------------------
\* Auto-apply: initAutoApply, scanForElements, checkAndApply, tryApply
\* ------------------------------------------------------------------------

\* tryApply gives up once attempts exceeds this.
MaxAttempts == 30

HasClass(e) == "liquid-glass" \in classList[e]

RECURSIVE InOrder(_, _)
\* The elements of set S from element number n on, in document order.
InOrder(S, n) ==
  IF n > NumElements THEN <<>>
  ELSE (IF n \in S THEN <<n>> ELSE <<>>) \o InOrder(S, n + 1)

\* The elements scanForElements hands to checkAndApply, in order: those
\* querySelectorAll('.liquid-glass') finds, then those of the deep traversal
\* that carry the class or a liquid_glass config.
ScanOrder ==
  InOrder({e \in inDocument : HasClass(e)}, 1)
    \o InOrder({e \in inDocument : HasClass(e) \/ config[e]}, 1)

\* The readiness test of tryApply, in the class branch and in the legacy
\* config branch of checkAndApply.
Ready(e) ==
  IF HasClass(e) THEN shadowRoot[e] = "undefined" \/ shadowRoot[e] = "child"
  ELSE shadowRoot[e] = "child"

\* Whether tryApply(attempts) for element e ends in an exception: the config
\* branch calls window.LiquidGlass.applyToCard, which LiquidGlass does not
\* define (a TypeError).
TryApplyThrows(e, attempts) == attempts <= MaxAttempts /\ Ready(e) /\ ~HasClass(e)

\* tryApply(attempts) for element e: give up, apply, throw, or set the
\* timer for tryApply(attempts + 1).
TryApply(e, attempts) ==
  IF attempts > MaxAttempts
  THEN /\ chain' = [chain EXCEPT ![e] = [state |-> "gaveup", attempts |-> attempts]]
       /\ UNCHANGED <<inst, nextId, applied, style, scanTimers, positioned>>
  ELSE IF ~Ready(e)
  THEN /\ chain' = [chain EXCEPT ![e] = [state |-> "waiting", attempts |-> attempts + 1]]
       /\ UNCHANGED <<inst, nextId, applied, style, scanTimers, positioned>>
  ELSE IF HasClass(e)
  THEN /\ chain' = [chain EXCEPT ![e] = [state |-> "applied", attempts |-> attempts]]
       /\ DoApplyToElement(e)
  ELSE /\ chain' = [chain EXCEPT ![e] = [state |-> "threw", attempts |-> attempts]]
       /\ UNCHANGED <<inst, nextId, applied, style, scanTimers, positioned>>

\* checkAndApply(element).
checkAndApply(e) ==
  IF e \in processed \/ ~(HasClass(e) \/ config[e])
  THEN UNCHANGED <<processed, chain, inst, nextId, applied, style, scanTimers, positioned>>
  ELSE /\ processed' = processed \cup {e}
       /\ TryApply(e, 0)

\* Whether checkAndApply(e) lets an exception escape into scanForElements.
CheckAndApplyThrows(e) == e \notin processed /\ config[e] /\ TryApplyThrows(e, 0)

\* setTimeout(initAutoApply, 1000) fires: the MutationObserver is set up and
\* the initial scan is scheduled.
InitAutoApply ==
  /\ Idle
  /\ ~autoInit
  /\ autoInit' = TRUE
  /\ scanTimers' = scanTimers + 1
  /\ UNCHANGED <<domVars, apiVars, inDocument, scanQueue, processed, chain, pureVars>>

\* An element is attached below document.body; the MutationObserver, once
\* set up, schedules a scan.
Attach(e) ==
  /\ Idle
  /\ e \notin inDocument
  /\ scanTimers < MaxTimers
  /\ inDocument' = inDocument \cup {e}
  /\ scanTimers' = IF autoInit THEN scanTimers + 1 ELSE scanTimers
  /\ UNCHANGED <<domVars, apiVars, autoInit, scanQueue, processed, chain, pureVars>>

\* A scan timer fires: scanForElements starts.
ScanTimer ==
  /\ Idle
  /\ scanTimers > 0
  /\ scanTimers' = scanTimers - 1
  /\ scanQueue' = ScanOrder
  /\ UNCHANGED <<domVars, apiVars, inDocument, autoInit, processed, chain, pureVars>>

\* window.LiquidGlass.scan() called by a script.
ManualScan ==
  /\ Idle
  /\ autoInit
  /\ ScanOrder # <<>>
  /\ scanQueue' = ScanOrder
  /\ UNCHANGED <<domVars, apiVars, inDocument, autoInit, scanTimers, processed, chain, pureVars>>

\* scanForElements visits its next element; an exception out of
\* checkAndApply ends the scan.
ScanStep ==
  /\ scanQueue # <<>>
  /\ checkAndApply(Head(scanQueue))
  /\ scanQueue' = IF CheckAndApplyThrows(Head(scanQueue)) THEN <<>> ELSE Tail(scanQueue)
  /\ UNCHANGED <<classList, config, shadowRoot, radiusVar, clientSize>>
  /\ UNCHANGED <<inDocument, autoInit, pureVars>>

\* The timer of a waiting tryApply chain fires.
TryApplyTimer(e) ==
  /\ Idle
  /\ chain[e].state = "waiting"
  /\ TryApply(e, chain[e].attempts)
  /\ UNCHANGED <<classList, config, shadowRoot, radiusVar, clientSize>>
  /\ UNCHANGED <<inDocument, autoInit, scanQueue, processed, pureVars>>

\* A custom element renders: its empty shadow root gets its first child,
\* which comes with a size.
PopulateShadow(e, size) ==
  /\ Idle
  /\ shadowRoot[e] = "empty"
  /\ shadowRoot' = [shadowRoot EXCEPT ![e] = "child"]
  /\ clientSize' = [clientSize EXCEPT ![<<e, "inner">>] = size]
  /\ UNCHANGED <<classList, config, radiusVar, style, positioned>>
  /\ UNCHANGED <<apiVars, autoVars, pureVars>>

\* The sizes surfaces have while the auto-apply runs: not laid out, or laid out.
AutoSizes == { <<0, 0>>, <<MaxDim, MaxDim>> }

\* The page when the script has loaded: elements of any class, config and
\* shadow state, in the document or still to be attached.
InitAuto ==
  /\ classList \in [Elements -> SUBSET ClassNames]
  /\ config \in [Elements -> BOOLEAN]
  /\ shadowRoot \in [Elements -> ShadowStates]
  /\ radiusVar \in [Elements -> {0, 24}]
  /\ clientSize \in [Surfaces -> AutoSizes]
  /\ SizesOk
  /\ inDocument \in SUBSET Elements
  /\ InitApiState
  /\ InitAutoState
  /\ InitPure

\* The auto-apply at work on the page.
NextAuto ==
  \/ InitAutoApply
  \/ \E e \in Elements : Attach(e)
  \/ ScanTimer
  \/ ManualScan
  \/ ScanStep
  \/ \E e \in Elements : TryApplyTimer(e)
  \/ \E e \in Elements, size \in AutoSizes : PopulateShadow(e, size)

AutoSpec == InitAuto /\ [][NextAuto]_vars

\* ------------------------------------------------------------------------
\* The generator and the path function on their own
\* ------------------------------------------------------------------------

\* The page of the specifications that only run a pure function.
InitNoPage ==
  /\ classList = [e \in Elements |-> {}]
  /\ config = [e \in Elements |-> FALSE]
  /\ shadowRoot = [e \in Elements |-> "null"]
  /\ radiusVar = [e \in Elements |-> 0]
  /\ clientSize = [s \in Surfaces |-> <<0, 0>>]
  /\ inDocument = Elements
  /\ InitApiState
  /\ InitAutoState

\* The shaders the generator is run for: the default (identity) fragment on
\* every grid up to (MaxGrid + 1) x (MaxGrid + 1), the glass fragment on the
\* grids of at most MaxCells cells with every choice of Math.pow's values.
GenInputs ==
  { [phase |-> "input", width |-> w, height |-> h,
     frag |-> [kind |-> "default", pow |-> <<>>]] :
      w \in 1 .. (MaxGrid + 1), h \in 1 .. (MaxGrid + 1) }
  \cup UNION { { [phase |-> "input", width |-> g[1], height |-> g[2],
                  frag |-> [kind |-> "glass", pow |-> p]] :
                   p \in [0 .. (g[1] * g[2] - 1) -> PowValues] } :
               g \in { x \in (1 .. MaxGrid) \X (1 .. MaxGrid) : x[1] * x[2] <= MaxCells } }

InitGen ==
  /\ gen \in GenInputs
  /\ pth = [phase |-> "idle"]
  /\ InitNoPage

\* The Shader constructor's call of updateShader.
Generate ==
  /\ gen.phase = "input"
  /\ gen' = [phase |-> "done", width |-> gen.width, height |-> gen.height,
             frag |-> gen.frag,
             out |-> updateShader(gen.width, gen.height, gen.frag)]
  /\ UNCHANGED <<domVars, apiVars, autoVars, pth>>

NextGen == Generate

GenSpec == InitGen /\ [][NextGen]_vars

\* The insets the script passes: 0 for the mask, 0.5 for the rim.
Insets == { RInt(0), Rat(1, 2) }

\* The calls of getSquirclePath: small sizes and radii, and the call
\* getSquirclePath(100, 50, 12, 0).
PathInputs ==
  { [phase |-> "input", w |-> w, h |-> h, r |-> r, o |-> o] :
      w \in 1 .. MaxSide, h \in 1 .. MaxSide, r \in 0 .. MaxPathRadius, o \in Insets }
  \cup { [phase |-> "input", w |-> 100, h |-> 50, r |-> DefaultRadius, o |-> RInt(0)] }

InitPath ==
  /\ pth \in PathInputs
  /\ gen = [phase |-> "idle"]
  /\ InitNoPage

\* One call of getSquirclePath.
SquirclePath ==
  /\ pth.phase = "input"
  /\ pth' = [phase |-> "done", w |-> pth.w, h |-> pth.h, r |-> pth.r, o |-> pth.o,
             d |-> getSquirclePath(RInt(pth.w), RInt(pth.h), RInt(pth.r), pth.o)]
  /\ UNCHANGED <<domVars, apiVars, autoVars, gen>>

NextPath == SquirclePath

PathSpec == InitPath /\ [][NextPath]_vars

\* ------------------------------------------------------------------------
\* Properties of the API: applyTo, applyToElement, destroy, resize
\* ------------------------------------------------------------------------

Live(i) == inst[i].state = "live"
LiveOn(s) == { i \in Ids : Live(i) /\ inst[i].target = s }

\* C1: whatever applyTo, applyToElement and destroy calls were made, each
\* surface has at most one live effect instance, and that instance is the
\* one the registry holds for the surface, so that applyTo on the surface
\* returns it and creates nothing.
C1_OneLiveInstancePerSurface ==
  \A s \in Surfaces :
    /\ Cardinality(LiveOn(s)) <= 1
    /\ \A i \in LiveOn(s) : applied[s] = i

\* C2: once an instance is destroyed its observer is disconnected, its SVG
\* and canvas are detached, the registry does not map its surface to it, and
\* neither the backdrop filter nor the mask image of the surface still
\* refers to it.
C2_DestroyReleasesEverything ==
  \A i \in Ids :
    inst[i].state = "destroyed" =>
      LET s == inst[i].target
      IN  /\ ~inst[i].observing
          /\ ~inst[i].attached
          /\ applied[s] # i
          /\ style[s].backdropFilter # i
          /\ style[s].maskImage # i

\* C5: every step that changes the size of a surface leaves each live
\* instance on it with a raster of the surface's new width and height.
C5_ResizeRegeneratesRaster ==
  [][\A i \in Ids :
       (Live(i) /\ clientSize'[inst[i].target] # clientSize[inst[i].target]) =>
         <<inst'[i].width, inst'[i].height>> = clientSize'[inst[i].target]]_vars

\* The paths of the squircle outline for size <<w, h>> and radius r.
MaskPath(size, r) == getSquirclePath(RInt(size[1]), RInt(size[2]), RInt(r), RInt(0))
RimPath(size, r) == getSquirclePath(RInt(size[1]), RInt(size[2]), RInt(r), Rat(1, 2))

\* C6 as stated: a live instance with squircle enabled (and its rim shown)
\* has as mask path getSquirclePath(w, h, radius, 0) and as rim path
\* getSquirclePath(w, h, radius, 0.5) for the current size <<w, h>> of its
\* surface, whatever that size is.
C6_OutlineAlwaysCurrent ==
  \A i \in Ids :
    (Live(i) /\ inst[i].squircle) =>
      /\ inst[i].maskD = MaskPath(clientSize[inst[i].target], inst[i].borderRadius)
      /\ inst[i].rim =>
           inst[i].rimD = RimPath(clientSize[inst[i].target], inst[i].borderRadius)

NonzeroSize(size) == size[1] # 0 /\ size[2] # 0

\* C6, amended: after every step, a live instance with squircle enabled whose
\* surface has a nonzero width and height has the mask path of that size,
\* and the rim path of that size exactly when its rim is shown; while the
\* width or the height is 0 both paths are what they were before the step
\* (none for an instance created at such a size).
C6_OutlineCurrentWhenNonzero ==
  [][\A i \in Ids :
       (inst'[i].state = "live" /\ inst'[i].squircle) =>
         LET size == clientSize'[inst'[i].target]
             r == inst'[i].borderRadius
         IN  IF NonzeroSize(size)
             THEN /\ inst'[i].maskD = MaskPath(size, r)
                  /\ inst'[i].rimD = IF inst'[i].rim THEN RimPath(size, r) ELSE Unset
             ELSE /\ inst'[i].maskD = inst[i].maskD
                  /\ inst'[i].rimD = inst[i].rimD]_vars

\* A live squircle instance with a rim whose surface has shrunk to nothing
\* after the paths were computed for a nonzero size.
C6_Witness ==
  \E i \in Ids :
    /\ Live(i) /\ inst[i].squircle /\ inst[i].rim
    /\ ~NonzeroSize(clientSize[inst[i].target])
    /\ inst[i].maskD # Unset
    /\ inst[i].rimD # Unset

\* The registry, the shaders and the styles are as they were.
NothingCreated == UNCHANGED <<inst, nextId, applied, style>>

\* applyTo(s, o) on a surface without registered instance, with a width or
\* height that is not positive.
NonPositiveCall(s, o) ==
  applied[s] = 0 /\ (o.width <= 0 \/ o.height <= 0) /\ ApplyTo(s, o)

\* C8 as stated: applyTo with width <= 0 or height <= 0 fails and leaves no
\* raster, no filter and no registry entry; no other size is substituted.
C8_NonPositiveSizeFailsFast ==
  [][\A s \in Surfaces, o \in OptionSets : NonPositiveCall(s, o) => NothingCreated]_vars

\* given || measured || fallback
OrElse(given, measured, fallback) ==
  IF given # 0 THEN given ELSE IF measured # 0 THEN measured ELSE fallback

\* The calls with a width or height that is not positive.
NonPositiveOptions == { o \in OptionSets : o.width <= 0 \/ o.height <= 0 }

\* C8, amended: a step that changes a shader, a style or the registry is
\* never applyTo with a negative width or height (that call throws out of the
\* Shader constructor and leaves everything as it was); and when it is
\* applyTo with width 0 or height 0 on a surface without registered
\* instance, it has not failed: it has registered a new live instance whose
\* raster has the surface's offset width (height) in place of the 0, or 300
\* (200) when that is 0 too.
C8_ZeroFallsBackNegativeThrows ==
  [][NothingCreated \/
     \A s \in Surfaces, o \in NonPositiveOptions :
       NonPositiveCall(s, o) =>
         LET i == applied'[s]
         IN  /\ o.width >= 0 /\ o.height >= 0
             /\ i # 0
             /\ inst[i].state = "none"
             /\ inst'[i].state = "live"
             /\ inst'[i].width = OrElse(o.width, clientSize[s][1], DefaultWidth)
             /\ inst'[i].height = OrElse(o.height, clientSize[s][2], DefaultHeight)]_vars

\* A registered live instance whose raster has the fallback size 300 x 200,
\* on a surface of size 0.
C8_Witness ==
  \E s \in Surfaces :
    /\ applied[s] # 0
    /\ Live(applied[s])
    /\ inst[applied[s]].width = DefaultWidth
    /\ inst[applied[s]].height = DefaultHeight

\* ------------------------------------------------------------------------
\* Properties of the auto-apply
\* ------------------------------------------------------------------------

\* The tryApply chain of element e has run to its end: no timer of it is
\* pending and, e being in processedElements, no scan starts another.
ChainEnded(e) == chain[e].state \in {"applied", "gaveup", "threw"}

\* C3: an element in the document that carries the liquid-glass class and
\* has no shadow root has the effect applied once its tryApply chain has
\* come to its end.
C3_ClassElementsGetEffect ==
  \A e \in Elements :
    (e \in inDocument /\ HasClass(e) /\ shadowRoot[e] \in {"undefined", "null"}
       /\ ChainEnded(e))
      => LiveOn(TargetOf(e)) # {}

\* C4: an element whose configuration has liquid_glass set and whose shadow
\* root has a first child has a live effect instance, and its chain has not
\* ended in an error, once the chain has come to its end.
C4_ConfigElementsGetEffect ==
  \A e \in Elements :
    (e \in inDocument /\ config[e] /\ shadowRoot[e] = "child" /\ ChainEnded(e))
      => (LiveOn(TargetOf(e)) # {} /\ chain[e].state # "threw")

\* C11 (what it says of every reachable state): the tryApply chain of an
\* element makes at most 31 readiness checks (attempts 0 .. 30), runs only
\* for an element in processedElements, and, once it has come to its end,
\* has either applied the effect or given up.
C11_PollingStops ==
  \A e \in Elements :
    /\ chain[e].attempts <= MaxAttempts + 1
    /\ chain[e].state # "none" => e \in processed
    /\ ChainEnded(e) => chain[e].state \in {"applied", "gaveup"}

\* ------------------------------------------------------------------------
\* Properties of the generator
\* ------------------------------------------------------------------------

GenDone == gen.phase = "done"
GenCells == DOMAIN gen.out.data
Midpoint == {127, 128}

\* C7: updateShader with the identity fragment, for any width and height
\* >= 1, yields maxScale = 0 and a raster whose every cell has R and G at the
\* midpoint (127 or 128), B = 0 and A = 255, and no NaN in the scale.
C7_IdentityRasterIsNeutral ==
  (GenDone /\ gen.frag.kind = "default") =>
    /\ gen.out.maxScale = RInt(0)
    /\ ~IsNaN(gen.out.scale)
    /\ \A c \in GenCells :
         /\ gen.out.data[c][1] \in Midpoint
         /\ gen.out.data[c][2] \in Midpoint
         /\ gen.out.data[c][3] = 0
         /\ gen.out.data[c][4] = 255

\* The two offsets of a cell, each with the byte that encodes it.
Components(c) ==
  { <<gen.out.raw[c].dx, gen.out.data[c][1]>>, <<gen.out.raw[c].dy, gen.out.data[c][2]>> }

\* A field with a nonzero maximum offset has been generated.
NonzeroField == GenDone /\ gen.out.maxScale # RInt(0)

\* (channel / 255 - 0.5) * factor * scale
Decode(ch, factor, scale) ==
  RMul(RMul(RSub(Rat(ch, 255), Rat(1, 2)), RInt(factor)), scale)

\* |a - b| <= eps
Within(a, b, eps) == RLe(RAbs(RSub(a, b)), eps)

\* C9 as stated: for every cell of a raster whose field has a nonzero
\* maximum offset, (channel / 255 - 0.5) * 2 * scale is within one
\* quantization step 2 * scale / 255 of the cell's dx (from R) and dy (from G).
C9_RoundTripTimesTwo ==
  NonzeroField =>
    \A c \in GenCells : \A p \in Components(c) :
      Within(Decode(p[2], 2, gen.out.scale), p[1],
             RMul(RInt(2), RDiv(gen.out.scale, RInt(255))))

\* An offset the byte can hold: at most scale / 2 in size.
InRange(d) == RLe(RAbs(d), RDiv(gen.out.scale, RInt(2)))

\* C9, amended: (channel / 255 - 0.5) * scale, without the factor 2, is
\* within one quantization step scale / 255 of every offset of size at most
\* scale / 2; a larger offset is stored clamped, as 255 when positive and as
\* 0 when negative.
C9_RoundTripInRange ==
  NonzeroField =>
    \A c \in GenCells : \A p \in Components(c) :
      IF InRange(p[1])
      THEN Within(Decode(p[2], 1, gen.out.scale), p[1], RDiv(gen.out.scale, RInt(255)))
      ELSE p[2] = (IF RLt(RInt(0), p[1]) THEN 255 ELSE 0)

\* A generated raster with a nonzero offset the byte holds unclamped, and
\* with an offset that was clamped.
C9_Witness ==
  /\ NonzeroField
  /\ \E c \in GenCells : \E p \in Components(c) :
       p[1] # RInt(0) /\ InRange(p[1]) /\ p[2] \notin {0, 255}
  /\ \E c \in GenCells : \E p \in Components(c) : ~InRange(p[1])

\* ------------------------------------------------------------------------
\* Properties of getSquirclePath
\* ------------------------------------------------------------------------

PathDone == pth.phase = "done"

\* The x (k = 1) or y (k = 2) coordinates of all points of path d.
Coords(d, k) ==
  UNION { { d[i].a[j] : j \in { n \in DOMAIN d[i].a : n % 2 = k % 2 } } : i \in DOMAIN d }

Lowest(S) == CHOOSE a \in S : \A b \in S : RLe(a, b)
Highest(S) == CHOOSE a \in S : \A b \in S : RLe(b, a)

CountCmd(d, c) == Cardinality({ i \in DOMAIN d : d[i].c = c })

\* C10: for w, h > 0, r >= 0, o >= 0 the path is closed, has exactly 4
\* cubic curves and 4 straight segments (three drawn by L, the left edge by
\* the closing Z), starts with M o,(o+r), and its points span exactly
\* [o, w-o] x [o, h-o].
C10_PathShapeAndExtent ==
  PathDone =>
    LET d == pth.d
        w == RInt(pth.w)
        h == RInt(pth.h)
        r == RInt(pth.r)
        o == pth.o
    IN  /\ d[1] = Cmd("M", <<o, RAdd(o, r)>>)
        /\ d[Len(d)].c = "Z"
        /\ CountCmd(d, "C") = 4
        /\ CountCmd(d, "L") + CountCmd(d, "Z") = 4
        /\ Lowest(Coords(d, 1)) = o
        /\ Highest(Coords(d, 1)) = RSub(w, o)
        /\ Lowest(Coords(d, 2)) = o
        /\ Highest(Coords(d, 2)) = RSub(h, o)

====
